---------------------------- MODULE Spec2Model ----------------------------
(***************************************************************************)
(* A model of server.py, the /download endpoint of yt-proxy-api.           *)
(*                                                                         *)
(* Python values are modelled as follows.  A str that the code takes apart *)
(* (the url parameter, COOKIES_B64) is a sequence of one-character         *)
(* strings; a str the code only compares or passes on (the API key, a      *)
(* codec name, a format URL) is a TLA+ string; bytes are a sequence of     *)
(* integers 0..255.  A value that may be None (dict.get on a missing key,  *)
(* a missing header or query parameter) is an option: <<>> for None and    *)
(* <<v>> for the value v.                                                  *)
(***************************************************************************)
EXTENDS Integers, Sequences, FiniteSets, TLC

VARIABLES
    API_KEY,        \* os.getenv("API_KEY", ""), read once at import
    COOKIES_B64,    \* os.getenv("COOKIES_B64", ""), read once at import
    workers,        \* the server's request threads / worker processes
    req,            \* per worker: the request it serves and download()'s locals
    cookies_txt,    \* the file /tmp/cookies.txt
    norm,           \* an application of normalize_youtube_url on its own
    sel             \* an application of pick_best_progressive_mp4 on its own

vars == <<API_KEY, COOKIES_B64, workers, req, cookies_txt, norm, sel>>

None == <<>>
Some(v) == <<v>>

---------------------------------------------------------------------------
(* Bounds of the model.                                                    *)

MaxTail == 4        \* characters generated after a URL prefix
MaxFormats == 3     \* length of a generated format list
NumWorkers == 2     \* concurrent requests in SpecRace

---------------------------------------------------------------------------
(* Python str operations, on sequences of characters.                      *)

\* s[i:] for a 1-based i
DropFirst(s, i) == SubSeq(s, i, Len(s))

\* sub in s
Contains(sub, s) ==
    \E i \in 1..(Len(s) - Len(sub) + 1) : SubSeq(s, i, i + Len(sub) - 1) = sub

\* positions of the character c in s
Positions(c, s) == {i \in 1..Len(s) : s[i] = c}

Max(S) == CHOOSE x \in S : \A y \in S : y <= x
Min(S) == CHOOSE x \in S : \A y \in S : x <= y

\* s.rstrip(c): every trailing c removed
RECURSIVE RStrip(_, _)
RStrip(s, c) ==
    IF s # <<>> /\ s[Len(s)] = c THEN RStrip(SubSeq(s, 1, Len(s) - 1), c) ELSE s

\* s.lstrip(c)
RECURSIVE LStrip(_, _)
LStrip(s, c) ==
    IF s # <<>> /\ s[1] = c THEN LStrip(Tail(s), c) ELSE s

\* s.strip(), the only whitespace of the model being the space
Strip(s) == LStrip(RStrip(s, " "), " ")

\* s.split(c)[-1]: what follows the last c, all of s when it holds no c
SplitLast(s, c) ==
    IF Positions(c, s) = {} THEN s ELSE DropFirst(s, Max(Positions(c, s)) + 1)

\* s.split(c)[0]: what precedes the first c, all of s when it holds no c
SplitFirst(s, c) ==
    IF Positions(c, s) = {} THEN s ELSE SubSeq(s, 1, Min(Positions(c, s)) - 1)

---------------------------------------------------------------------------
(* String literals of server.py.                                           *)

ShortsSegment ==    \* "youtube.com/shorts/"
    <<"y", "o", "u", "t", "u", "b", "e", ".", "c", "o", "m", "/",
      "s", "h", "o", "r", "t", "s", "/">>

WatchPrefix ==      \* "https://www.youtube.com/watch?v="
    <<"h", "t", "t", "p", "s", ":", "/", "/", "w", "w", "w", ".",
      "y", "o", "u", "t", "u", "b", "e", ".", "c", "o", "m", "/",
      "w", "a", "t", "c", "h", "?", "v", "=">>

HostYoutubeCom ==   \* youtube\.com
    <<"y", "o", "u", "t", "u", "b", "e", ".", "c", "o", "m">>

HostYoutuBe ==      \* youtu\.be
    <<"y", "o", "u", "t", "u", ".", "b", "e">>

\* YT_HOST_RE.search(url) is not None
YT_HOST_RE(url) == Contains(HostYoutubeCom, url) \/ Contains(HostYoutuBe, url)

---------------------------------------------------------------------------
(* normalize_youtube_url.  The try block holds str operations that raise   *)
(* nothing on a str, so the except branch is never taken.                  *)

VidOf(url) == SplitFirst(SplitLast(RStrip(url, "/"), "/"), "?")

normalize_youtube_url(url) ==
    IF url = <<>> THEN url
    ELSE IF Contains(ShortsSegment, url) THEN WatchPrefix \o VidOf(url)
    ELSE url

---------------------------------------------------------------------------
(* Inputs of the normalizer: a prefix followed by up to MaxTail characters.*)

ShortsUrl ==        \* "https://www.youtube.com/shorts/"
    <<"h", "t", "t", "p", "s", ":", "/", "/", "w", "w", "w", "."
     >> \o ShortsSegment

NoSlashShortsUrl == \* "https://www.youtube.com/shorts"
    SubSeq(ShortsUrl, 1, Len(ShortsUrl) - 1)

YoutuBeUrl ==       \* "https://youtu.be/"
    <<"h", "t", "t", "p", "s", ":", "/", "/">> \o HostYoutuBe \o <<"/">>

ExampleCom ==       \* "https://example.com"
    <<"h", "t", "t", "p", "s", ":", "/", "/",
      "e", "x", "a", "m", "p", "l", "e", ".", "c", "o", "m">>

SpecExampleIn ==    \* "https://www.youtube.com/shorts/abc123?x=1"
    ShortsUrl \o <<"a", "b", "c", "1", "2", "3", "?", "x", "=", "1">>

SpecExampleOut ==   \* "https://www.youtube.com/watch?v=abc123"
    WatchPrefix \o <<"a", "b", "c", "1", "2", "3">>

UrlPrefixes == {ShortsUrl, NoSlashShortsUrl, WatchPrefix, YoutuBeUrl}

TailAlphabet == {"a", "x", "/", "?"}

Tails == UNION {[1..n -> TailAlphabet] : n \in 0..MaxTail}

NormalizeInputs ==
    {<<>>, SpecExampleIn} \cup {pre \o t : pre \in UrlPrefixes, t \in Tails}

---------------------------------------------------------------------------
(* The variables of the parts a specification leaves alone.                *)

NormIdle == norm = [input |-> <<>>, output |-> <<>>, done |-> FALSE]
SelIdle ==
    sel = [formats |-> <<>>, result |-> <<>>, response |-> <<>>, done |-> FALSE]
ServerIdle ==
    /\ API_KEY = ""
    /\ COOKIES_B64 = <<>>
    /\ workers = {}
    /\ req = <<>>
    /\ cookies_txt = [exists |-> FALSE, data |-> <<>>]

---------------------------------------------------------------------------
(* SpecNormalize: normalize_youtube_url applied to each input.             *)

InitNormalize ==
    /\ norm \in [input : NormalizeInputs, output : {<<>>}, done : {FALSE}]
    /\ SelIdle
    /\ ServerIdle

Normalize ==
    /\ ~norm.done
    /\ norm' = [norm EXCEPT !.output = normalize_youtube_url(norm.input),
                            !.done = TRUE]
    /\ UNCHANGED <<API_KEY, COOKIES_B64, workers, req, cookies_txt, sel>>

NextNormalize == Normalize

SpecNormalize == InitNormalize /\ [][NextNormalize]_vars

---------------------------------------------------------------------------
(* pick_best_progressive_mp4.  A format descriptor is a record of options, *)
(* one per key the function reads with f.get.                              *)

\* a test for None where truthiness is meant
IsNotNone(o) == o # None

\* Python truthiness of f.get("url")
Truthy(o) == o # None /\ o[1] # ""

\* f.get(k) or 0
OrZero(o) == IF o = None THEN 0 ELSE o[1]

\* f.get(k) not in (None, "none")
CodecPresent(o) == o # None /\ o[1] # "none"

IsProgMp4(f) ==
    /\ f.ext = Some("mp4")
    /\ CodecPresent(f.vcodec)
    /\ CodecPresent(f.acodec)
    /\ Truthy(f.url)

\* a second tier that forgets the container
IsMp4AnyContainer(f) == Truthy(f.url)

IsMp4Any(f) == f.ext = Some("mp4") /\ Truthy(f.url)

HasUrl(f) == Truthy(f.url)

\* the sort key (f.get("height") or 0, f.get("tbr") or 0)
QualityKey(f) == <<OrZero(f.height), OrZero(f.tbr)>>

\* tuple comparison a > b
KeyGreater(a, b) == a[1] > b[1] \/ (a[1] = b[1] /\ a[2] > b[2])

\* f put into the descending list sorted, after every element whose key is
\* not smaller: elements of equal key keep their order
RECURSIVE InsertDesc(_, _)
InsertDesc(sorted, f) ==
    IF sorted = <<>> THEN <<f>>
    ELSE IF KeyGreater(QualityKey(f), QualityKey(Head(sorted)))
         THEN <<f>> \o sorted
         ELSE <<Head(sorted)>> \o InsertDesc(Tail(sorted), f)

\* a sort that puts f before the elements of equal key, as reversing an
\* ascending sort does
RECURSIVE InsertDescUnstable(_, _)
InsertDescUnstable(sorted, f) ==
    IF sorted = <<>> THEN <<f>>
    ELSE IF ~KeyGreater(QualityKey(Head(sorted)), QualityKey(f))
         THEN <<f>> \o sorted
         ELSE <<Head(sorted)>> \o InsertDescUnstable(Tail(sorted), f)

RECURSIVE SortUnstableFrom(_, _)
SortUnstableFrom(sorted, fs) ==
    IF fs = <<>> THEN sorted
    ELSE SortUnstableFrom(InsertDescUnstable(sorted, Head(fs)), Tail(fs))

SortByQualityUnstable(fs) == SortUnstableFrom(<<>>, fs)

RECURSIVE SortFrom(_, _)
SortFrom(sorted, fs) ==
    IF fs = <<>> THEN sorted ELSE SortFrom(InsertDesc(sorted, Head(fs)), Tail(fs))

\* list.sort(key=..., reverse=True): stable, descending
SortByQuality(fs) == SortFrom(<<>>, fs)

\* a tier: the list comprehension [f for f in formats if ...], sorted
ProgMp4(formats) == SortByQuality(SelectSeq(formats, IsProgMp4))
Mp4Any(formats) == SortByQuality(SelectSeq(formats, IsMp4Any))
Everything(formats) == SortByQuality(SelectSeq(formats, HasUrl))

pick_best_progressive_mp4(formats) ==
    IF formats = <<>> THEN None
    ELSE IF ProgMp4(formats) # <<>> THEN ProgMp4(formats)[1].url
    ELSE IF Mp4Any(formats) # <<>> THEN Mp4Any(formats)[1].url
    ELSE IF Everything(formats) # <<>> THEN Everything(formats)[1].url
    ELSE None

\* download() from the selection on: the 502 of a selection failure, or the
\* 200 carrying the selected URL
SelectionResponse(formats) ==
    LET mp4_url == pick_best_progressive_mp4(formats)
    IN IF ~Truthy(mp4_url)
       THEN [status |-> 502, error |-> "No downloadable MP4 URL was found",
             mp4_url |-> None]
       ELSE [status |-> 200, error |-> "", mp4_url |-> mp4_url]

NoResponse == [status |-> 0, error |-> "", mp4_url |-> None]

---------------------------------------------------------------------------
(* Inputs of the selector.  The URL of the i-th descriptor, when it has    *)
(* one, is UrlAt[i]: a result tells which descriptor was chosen.           *)

Exts == {None, Some("mp4"), Some("webm")}
Codecs == {None, Some("none"), Some("avc1")}
Heights == {None, Some(0), Some(360)}
Bitrates == {None, Some(100)}
UrlKinds == {"missing", "empty", "present"}

UrlAt == [i \in 1..(MaxFormats + 1) |-> <<"u1", "u2", "u3", "u4", "u5">>[i]]

\* every shape of one descriptor
AnyShape ==
    [ext : Exts, vcodec : Codecs, acodec : Codecs,
     height : Heights, tbr : Bitrates, url : UrlKinds]

\* the shapes that lists are made of: each tier, with and without a URL,
\* and three keys, (0, 0) < (0, 100) < (360, 0)
ListShape ==
    {f \in [ext : {Some("mp4"), Some("webm")}, vcodec : {Some("avc1")},
             acodec : {Some("none"), Some("mp4a")},
             height : {None, Some(360)}, tbr : {None, Some(100)},
             url : {"empty", "present"}] :
        f.height = None \/ f.tbr = None}

WithUrl(shape, i) ==
    [shape EXCEPT !.url = CASE shape.url = "missing" -> None
                            [] shape.url = "empty" -> Some("")
                            [] OTHER -> Some(UrlAt[i])]

\* the list of descriptors of the shapes fs
ListOf(fs) == [i \in DOMAIN fs |-> WithUrl(fs[i], i)]

---------------------------------------------------------------------------
(* SpecSelect: pick_best_progressive_mp4 applied to each format list.      *)

InitSelect ==
    /\ \E S \in {AnyShape, ListShape} :
         \E n \in 0..(IF S = AnyShape THEN 1 ELSE MaxFormats) :
           \E fs \in [1..n -> S] :
             sel = [formats |-> ListOf(fs), result |-> None,
                    response |-> NoResponse, done |-> FALSE]
    /\ NormIdle
    /\ ServerIdle

Select ==
    /\ ~sel.done
    /\ sel' = [sel EXCEPT !.result = pick_best_progressive_mp4(sel.formats),
                          !.response = SelectionResponse(sel.formats),
                          !.done = TRUE]
    /\ UNCHANGED <<API_KEY, COOKIES_B64, workers, req, cookies_txt, norm>>

NextSelect == Select

SpecSelect == InitSelect /\ [][NextSelect]_vars

---------------------------------------------------------------------------
(* base64.b64decode on text made of alphabet characters and "=" padding:   *)
(* None when it raises binascii.Error, else the bytes.                     *)

B64Alphabet ==
    <<"A", "B", "C", "D", "E", "F", "G", "H", "I", "J", "K", "L", "M",
      "N", "O", "P", "Q", "R", "S", "T", "U", "V", "W", "X", "Y", "Z",
      "a", "b", "c", "d", "e", "f", "g", "h", "i", "j", "k", "l", "m",
      "n", "o", "p", "q", "r", "s", "t", "u", "v", "w", "x", "y", "z",
      "0", "1", "2", "3", "4", "5", "6", "7", "8", "9", "+", "/">>

\* the 6 bits a character stands for
B64Value(c) == (CHOOSE i \in 1..Len(B64Alphabet) : B64Alphabet[i] = c) - 1

\* the bytes of one group of four characters, n of them padding
B64Group(g, n) ==
    LET a == B64Value(g[1])
        b == B64Value(g[2])
        c == IF n >= 2 THEN 0 ELSE B64Value(g[3])
        d == IF n >= 1 THEN 0 ELSE B64Value(g[4])
        bytes == <<a * 4 + b \div 16, (b % 16) * 16 + c \div 4, (c % 4) * 64 + d>>
    IN SubSeq(bytes, 1, 3 - n)

RECURSIVE B64Groups(_)
B64Groups(s) ==
    IF s = <<>> THEN <<>>
    ELSE LET g == SubSeq(s, 1, 4)
             n == Cardinality({i \in 3..4 : g[i] = "="})
         IN B64Group(g, n) \o B64Groups(DropFirst(s, 5))

b64decode(s) ==
    IF Len(s) % 4 # 0 THEN None ELSE Some(B64Groups(s))

---------------------------------------------------------------------------
(* The file /tmp/cookies.txt.  open(path, "wb") creates or truncates it;   *)
(* a write puts bytes at the writer's own offset, past the end of a file   *)
(* that another writer truncated meanwhile, the gap reading as zeros.      *)

CookiePath == "/tmp/cookies.txt"

Truncated == [exists |-> TRUE, data |-> <<>>]

WriteAt(file, offset, bytes) ==
    LET len == IF Len(file.data) > offset + Len(bytes)
               THEN Len(file.data) ELSE offset + Len(bytes)
    IN [file EXCEPT !.data =
          [i \in 1..len |->
             IF i > offset /\ i <= offset + Len(bytes) THEN bytes[i - offset]
             ELSE IF i <= Len(file.data) THEN file.data[i]
             ELSE 0]]

---------------------------------------------------------------------------
(* Inputs of the server: the environment, the requests, and what the       *)
(* extractor, a black box, raises or returns.                              *)

ApiKeys == {"", "secret"}

CookiesOk ==        \* base64 of "a=1"
    <<"Y", "T", "0", "x">>
CookiesBadPadding ==
    <<"Y", "T", "0">>
CookieConfigs == {<<>>, CookiesOk, CookiesBadPadding}

\* the x-api-key header: absent, wrong, right
Headers == {None, Some("wrong"), Some("secret")}

\* the url query parameter: absent, blank, another site, a padded youtu.be
\* URL, a Shorts URL
UrlParams ==
    {None,
     Some(<<" ", " ">>),
     Some(ExampleCom),
     Some(<<" ">> \o YoutuBeUrl \o <<"a", " ">>),
     Some(ShortsUrl \o <<"a", "?", "x">>)}

Fmt(ext, vcodec, acodec, height, url) ==
    [ext |-> Some(ext), vcodec |-> Some(vcodec), acodec |-> Some(acodec),
     height |-> Some(height), tbr |-> None, url |-> url]

\* an info dict of the extractor
Info(type, title, duration, formats, entries) ==
    Some([type |-> type, title |-> title, duration |-> duration,
          formats |-> formats, entries |-> entries])

Video(title, formats) == Info(None, Some(title), Some(10), formats, None)

VideoProgressive ==
    Video("Video", Some(<<Fmt("webm", "vp9", "opus", 720, Some("w1")),
                          Fmt("mp4", "avc1", "mp4a", 360, Some("m1"))>>))
VideoFirst ==
    Video("First", Some(<<Fmt("mp4", "avc1", "none", 360, Some("e1"))>>))
VideoNoFormats == Video("Bare", None)
VideoNoUrls ==
    Video("NoUrl", Some(<<Fmt("mp4", "avc1", "mp4a", 360, Some("")),
                          Fmt("webm", "vp9", "opus", 720, None)>>))
VideoUntitled ==
    Info(None, None, None, Some(<<Fmt("webm", "vp9", "opus", 720, Some("w2"))>>),
         None)

Playlist(entries) == Info(Some("playlist"), Some("List"), None, None, entries)

\* what ydl.extract_info returns when it returns
ExtractReturns ==
    {None,
     VideoProgressive, VideoNoFormats, VideoNoUrls, VideoUntitled,
     Playlist(None), Playlist(Some(<<>>)),
     Playlist(Some(<<VideoFirst, VideoProgressive>>)),
     Playlist(Some(<<None, VideoProgressive>>))}

\* str(e) of what it raises
ExtractErrors == {"Sign in to confirm you're not a bot"}

---------------------------------------------------------------------------
(* download(): one request per worker at a time.  A step is a stretch of   *)
(* the handler between two accesses to what the workers share, the file    *)
(* /tmp/cookies.txt, cut further at the stages of the handler.             *)

NoReply ==
    [status |-> 0, error |-> "", detail |-> "", title |-> None,
     duration |-> None, source_url |-> <<>>, mp4_url |-> None]

Idle ==
    [pc |-> "idle", given |-> None, urlparam |-> None, url |-> <<>>,
     cookiefile |-> None, offset |-> 0, seen |-> None,
     extracted |-> None, info |-> None,
     title |-> None, duration |-> None, formats |-> <<>>,
     reply |-> NoReply, stages |-> <<>>]

\* jsonify({"error": error}), status
ErrorReply(status, error) == [NoReply EXCEPT !.status = status, !.error = error]

\* return of a reply: the request is over
Return(r, stage, reply) ==
    [r EXCEPT !.pc = "done", !.reply = reply, !.stages = Append(@, stage)]

\* fall through to the next stage
Goto(r, stage, pc) == [r EXCEPT !.pc = pc, !.stages = Append(@, stage)]

\* a check that lets a request without the header through
UnauthorizedUnlessAbsent(given) ==
    API_KEY # "" /\ given # None /\ given[1] # API_KEY

\* request.headers.get("x-api-key", "") != API_KEY, when a key is configured

Unauthorized(given) ==
    API_KEY # "" /\ (IF given = None THEN "" ELSE given[1]) # API_KEY

\* (request.args.get("url") or "").strip()
UrlArg(param) == Strip(IF param = None THEN <<>> ELSE param[1])

\* a validation without the host pattern
RejectedOnlyIfEmpty(url) == url = <<>>

\* not url or not YT_HOST_RE.search(url)
Rejected(url) == url = <<>> \/ ~YT_HOST_RE(url)

\* isinstance(info, dict) and info.get("_type") == "playlist"
IsPlaylist(info) == info # None /\ info[1].type = Some("playlist")

\* the truthiness of info.get("entries")
HasEntries(info) == info[1].entries # None /\ info[1].entries[1] # <<>>

\* info["entries"][-1]
LastEntry(info) == info[1].entries[1][Len(info[1].entries[1])]

\* info["entries"][0]
FirstEntry(info) == info[1].entries[1][1]

\* worker w is at the stage pc of its request
At(w, pc) == w \in workers /\ req[w].pc = pc

\* a client sends a request to a worker that serves none
Receive(w) ==
    /\ w \in workers
    /\ req[w].pc \in {"idle", "done"}
    /\ \E given \in Headers, urlparam \in UrlParams :
         req' = [req EXCEPT ![w] =
                   [Idle EXCEPT !.pc = "auth", !.given = given,
                                !.urlparam = urlparam]]
    /\ UNCHANGED <<API_KEY, COOKIES_B64, workers, cookies_txt, norm, sel>>

\* lines 127-130
Authorize(w) ==
    /\ At(w, "auth")
    /\ req' = [req EXCEPT ![w] =
                 IF Unauthorized(@.given)
                 THEN Return(@, "auth", ErrorReply(401, "Unauthorized"))
                 ELSE Goto(@, "auth", "validate")]
    /\ UNCHANGED <<API_KEY, COOKIES_B64, workers, cookies_txt, norm, sel>>

\* lines 132-134
Validate(w) ==
    /\ At(w, "validate")
    /\ LET url == UrlArg(req[w].urlparam)
       IN req' = [req EXCEPT ![w] =
                    IF Rejected(url)
                    THEN Return(@, "validate",
                                ErrorReply(400, "Provide a valid YouTube URL via ?url="))
                    ELSE Goto([@ EXCEPT !.url = url], "validate", "normalize")]
    /\ UNCHANGED <<API_KEY, COOKIES_B64, workers, cookies_txt, norm, sel>>

\* line 136
NormalizeUrl(w) ==
    /\ At(w, "normalize")
    /\ req' = [req EXCEPT ![w] =
                 Goto([@ EXCEPT !.url = normalize_youtube_url(@)],
                      "normalize", "cookies")]
    /\ UNCHANGED <<API_KEY, COOKIES_B64, workers, cookies_txt, norm, sel>>

\* write_cookiefile_from_b64 up to its write: lines 32-36 and the evaluation
\* of base64.b64decode(b64) of line 37, which raises after the file was opened
OpenCookiefile(w) ==
    /\ At(w, "cookies")
    /\ IF COOKIES_B64 = <<>>
       THEN /\ req' = [req EXCEPT ![w] = Goto(@, "cookies", "extract")]
            /\ UNCHANGED cookies_txt
       ELSE /\ cookies_txt' = Truncated
            /\ req' = [req EXCEPT ![w] =
                         IF b64decode(COOKIES_B64) = None
                         THEN Goto(@, "cookies", "extract")
                         ELSE Goto([@ EXCEPT !.offset = 0], "cookies", "write")]
    /\ UNCHANGED <<API_KEY, COOKIES_B64, workers, norm, sel>>

\* f.write of line 37 and the close of the file: the bytes reach the file in
\* one piece or in several
WriteCookiefile(w) ==
    /\ At(w, "write")
    /\ LET bytes == b64decode(COOKIES_B64)[1]
       IN \E n \in 1..(Len(bytes) - req[w].offset) :
            /\ cookies_txt' =
                 WriteAt(cookies_txt, req[w].offset,
                         SubSeq(bytes, req[w].offset + 1, req[w].offset + n))
            /\ req' = [req EXCEPT ![w] =
                         IF @.offset + n = Len(bytes)
                         THEN [@ EXCEPT !.offset = @ + n, !.pc = "extract",
                                        !.cookiefile = Some(CookiePath)]
                         ELSE [@ EXCEPT !.offset = @ + n]]
    /\ UNCHANGED <<API_KEY, COOKIES_B64, workers, norm, sel>>

\* lines 139-146: the extractor, given opts["cookiefile"], reads the file; it
\* raises, or returns an info
Extract(w) ==
    /\ At(w, "extract")
    /\ LET seen == IF req[w].cookiefile = None THEN None
                   ELSE Some(cookies_txt.data)
       IN \E raised \in BOOLEAN, e \in ExtractErrors, info \in ExtractReturns :
            req' = [req EXCEPT ![w] =
                      IF raised
                      THEN Return([@ EXCEPT !.seen = seen], "extract",
                                  [ErrorReply(502, "yt-dlp failed")
                                     EXCEPT !.detail = e])
                      ELSE Goto([@ EXCEPT !.seen = seen, !.extracted = info,
                                          !.info = info],
                                "extract", "unwrap")]
    /\ UNCHANGED <<API_KEY, COOKIES_B64, workers, cookies_txt, norm, sel>>

\* lines 149-153
Unwrap(w) ==
    /\ At(w, "unwrap")
    /\ req' = [req EXCEPT ![w] =
                 IF ~IsPlaylist(@.info) THEN Goto(@, "unwrap", "fields")
                 ELSE IF HasEntries(@.info)
                 THEN Goto([@ EXCEPT !.info = FirstEntry(@)], "unwrap", "fields")
                 ELSE Return(@, "unwrap",
                             ErrorReply(404, "Playlist contained no entries"))]
    /\ UNCHANGED <<API_KEY, COOKIES_B64, workers, cookies_txt, norm, sel>>

\* lines 155-157: info.get on None raises AttributeError, which nothing
\* catches, and Flask answers 500
ReadFields(w) ==
    /\ At(w, "fields")
    /\ req' = [req EXCEPT ![w] =
                 IF @.info = None
                 THEN Return(@, "fields", ErrorReply(500, "Internal Server Error"))
                 ELSE Goto([@ EXCEPT !.title = req[w].info[1].title,
                                     !.duration = req[w].info[1].duration,
                                     !.formats =
                                        IF req[w].info[1].formats \in {None, Some(<<>>)}
                                        THEN <<>> ELSE req[w].info[1].formats[1]],
                           "fields", "select")]
    /\ UNCHANGED <<API_KEY, COOKIES_B64, workers, cookies_txt, norm, sel>>

\* lines 159-168
SelectAndRespond(w) ==
    /\ At(w, "select")
    /\ LET answer == SelectionResponse(req[w].formats)
       IN req' = [req EXCEPT ![w] =
                    IF answer.status = 502
                    THEN Return(@, "select", ErrorReply(502, answer.error))
                    ELSE Return(Goto(@, "select", "respond"), "respond",
                                [NoReply EXCEPT !.status = 200,
                                                !.title = req[w].title,
                                                !.duration = req[w].duration,
                                                !.source_url = req[w].url,
                                                !.mp4_url = answer.mp4_url])]
    /\ UNCHANGED <<API_KEY, COOKIES_B64, workers, cookies_txt, norm, sel>>

Step(w) ==
    \/ Receive(w)
    \/ Authorize(w)
    \/ Validate(w)
    \/ NormalizeUrl(w)
    \/ OpenCookiefile(w)
    \/ WriteCookiefile(w)
    \/ Extract(w)
    \/ Unwrap(w)
    \/ ReadFields(w)
    \/ SelectAndRespond(w)

Workers == 1..NumWorkers

Next == \E w \in Workers : Step(w)

\* the environment is read at import; /tmp/cookies.txt does not exist yet
InitServer(W) ==
    /\ API_KEY \in ApiKeys
    /\ COOKIES_B64 \in CookieConfigs
    /\ workers = W
    /\ req = [w \in W |-> Idle]
    /\ cookies_txt = [exists |-> FALSE, data |-> <<>>]
    /\ NormIdle
    /\ SelIdle

\* Spec: the requests served one after the other
Init == InitServer({1})

Spec == Init /\ [][Next]_vars

\* SpecRace: NumWorkers requests served at once
InitRace == InitServer(Workers)

SpecRace == InitRace /\ [][Next]_vars

---------------------------------------------------------------------------
(* What the specification says the normalizer returns.                     *)

\* the trailing path component, the query string and then any trailing
\* slash stripped
TrailingPathComponent(url) == SplitLast(RStrip(SplitFirst(url, "?"), "/"), "/")

\* what follows the first "youtube.com/shorts/", up to the next "/" or "?"
IdAfterShorts(url) ==
    LET at == Min({i \in 1..(Len(url) - Len(ShortsSegment) + 1) :
                     SubSeq(url, i, i + Len(ShortsSegment) - 1) = ShortsSegment})
        rest == DropFirst(url, at + Len(ShortsSegment))
    IN SplitFirst(SplitFirst(rest, "/"), "?")

\* C4: an input containing "youtube.com/shorts/" yields the watch URL of its
\* trailing path component, trailing slash and query string stripped, also
\* when a slash precedes the query string or the query string holds a slash;
\* any other input is returned unchanged.
C4_ShortsRewrittenToWatch ==
    norm.done =>
        IF Contains(ShortsSegment, norm.input)
        THEN norm.output = WatchPrefix \o TrailingPathComponent(norm.input)
        ELSE norm.output = norm.input

\* C5: a short-form input from which no non-empty identifier can be extracted
\* is returned unchanged, and no watch URL with an empty identifier is ever
\* produced.
C5_MalformedShortsUnchanged ==
    norm.done =>
        /\ norm.output # WatchPrefix
        /\ (Contains(ShortsSegment, norm.input)
               /\ IdAfterShorts(norm.input) = <<>>) => norm.output = norm.input

\* The example of the specification.
C4_ExampleRewritten ==
    (norm.done /\ norm.input = SpecExampleIn) => norm.output = SpecExampleOut

---------------------------------------------------------------------------
(* What the specification says the selector returns.                       *)

ClaimHasUrl(f) == f.url \notin {None, Some("")}
ClaimMp4(f) == f.ext = Some("mp4") /\ ClaimHasUrl(f)
ClaimProgressive(f) ==
    /\ ClaimMp4(f)
    /\ f.vcodec \notin {None, Some("none")}
    /\ f.acodec \notin {None, Some("none")}

ClaimKey(f) ==
    <<IF f.height = None THEN 0 ELSE f.height[1],
      IF f.tbr = None THEN 0 ELSE f.tbr[1]>>

KeyLess(a, b) == a[1] < b[1] \/ (a[1] = b[1] /\ a[2] < b[2])

IndicesOf(formats, Is(_)) == {i \in 1..Len(formats) : Is(formats[i])}

\* the candidate of maximum (height, bitrate), the earliest of those
BestOf(formats, I) ==
    CHOOSE i \in I : \A j \in I :
        /\ ~KeyLess(ClaimKey(formats[i]), ClaimKey(formats[j]))
        /\ ClaimKey(formats[j]) = ClaimKey(formats[i]) => i <= j

\* C1: when the list holds a progressive MP4 candidate, the result is the URL
\* of the progressive candidate of maximum (height, bitrate), absent values
\* counted as 0, the earliest in input order among equals; it is never the
\* URL of another descriptor.
C1_BestProgressiveChosen ==
    LET prog == IndicesOf(sel.formats, ClaimProgressive)
    IN (sel.done /\ prog # {}) =>
          sel.result = sel.formats[BestOf(sel.formats, prog)].url

\* two progressive candidates tie behind a better video-only MP4 and the
\* first of the two is returned
C1_Witness ==
    /\ sel.done
    /\ Len(sel.formats) = 3
    /\ ~ClaimProgressive(sel.formats[1]) /\ ClaimMp4(sel.formats[1])
    /\ ClaimProgressive(sel.formats[2]) /\ ClaimProgressive(sel.formats[3])
    /\ ClaimKey(sel.formats[2]) = ClaimKey(sel.formats[3])
    /\ KeyLess(ClaimKey(sel.formats[2]), ClaimKey(sel.formats[1]))
    /\ sel.result = Some(UrlAt[2])

\* C2: without a progressive candidate the result is the URL of the best MP4
\* descriptor with a URL when there is one, and only otherwise the URL of the
\* best URL-bearing descriptor of any container.
C2_FallbackTiersInOrder ==
    LET prog == IndicesOf(sel.formats, ClaimProgressive)
        mp4 == IndicesOf(sel.formats, ClaimMp4)
        any == IndicesOf(sel.formats, ClaimHasUrl)
    IN (sel.done /\ prog = {}) =>
          /\ mp4 # {} => sel.result = sel.formats[BestOf(sel.formats, mp4)].url
          /\ (mp4 = {} /\ any # {}) =>
                sel.result = sel.formats[BestOf(sel.formats, any)].url

\* a video-only MP4 is returned although a WebM of higher quality has a URL
C2_Witness ==
    /\ sel.done
    /\ Len(sel.formats) = 2
    /\ IndicesOf(sel.formats, ClaimProgressive) = {}
    /\ ~ClaimMp4(sel.formats[1]) /\ ClaimHasUrl(sel.formats[1])
    /\ ClaimMp4(sel.formats[2])
    /\ KeyLess(ClaimKey(sel.formats[2]), ClaimKey(sel.formats[1]))
    /\ sel.result = Some(UrlAt[2])

\* C3: the selector signals "no candidate" exactly when no descriptor has a
\* non-empty URL, which /download answers with 502; a result is the non-empty
\* URL of a descriptor of the list, and it is the mp4_url of the 200.
C3_ResultIsListedUrl ==
    sel.done =>
        /\ sel.result = None <=> IndicesOf(sel.formats, ClaimHasUrl) = {}
        /\ sel.result # None =>
              /\ sel.result[1] # ""
              /\ \E i \in 1..Len(sel.formats) : sel.formats[i].url = sel.result
              /\ sel.response.status = 200
              /\ sel.response.mp4_url = sel.result
        /\ sel.result = None =>
              /\ sel.response.status = 502
              /\ sel.response.error = "No downloadable MP4 URL was found"

\* a list whose only URLs are empty strings or missing is a selection failure
C3_Witness ==
    /\ sel.done
    /\ Len(sel.formats) = 3
    /\ sel.formats[1].ext = Some("mp4") /\ sel.formats[1].url = Some("")
    /\ sel.result = None
    /\ sel.response.status = 502

---------------------------------------------------------------------------
(* What the specification says /download answers.                          *)

Range(seq) == {seq[i] : i \in 1..Len(seq)}

\* the url parameter is missing, blank, or names no video-hosting domain
ClaimInvalidUrl(param) ==
    \/ param = None
    \/ \A i \in 1..Len(param[1]) : param[1][i] = " "
    \/ ~(Contains(HostYoutubeCom, param[1]) \/ Contains(HostYoutuBe, param[1]))

\* the request sent no x-api-key header or another key than the configured
ClaimKeyMismatch(given) == given = None \/ given[1] # API_KEY

\* C6: with an API key configured, a request without the header or with
\* another key is answered 401 "Unauthorized" whatever its url parameter,
\* before validation, cookie file and extraction; with no key configured no
\* request is answered 401.
C6_UnauthorizedBeforeAnything ==
    \A w \in workers :
        LET r == req[w]
        IN /\ (API_KEY # "" /\ r.pc \notin {"idle", "auth"}
                 /\ ClaimKeyMismatch(r.given)) =>
                 /\ r.pc = "done"
                 /\ r.reply.status = 401
                 /\ r.reply.error = "Unauthorized"
                 /\ r.stages = <<"auth">>
                 /\ r.seen = None /\ r.cookiefile = None
           /\ API_KEY = "" => r.reply.status # 401

\* a request with a valid url parameter and no header is answered 401
C6_Witness ==
    /\ API_KEY = "secret"
    /\ \E w \in workers :
         /\ req[w].given = None
         /\ ~ClaimInvalidUrl(req[w].urlparam)
         /\ req[w].reply.status = 401

\* C7: a request that passes authorization with a missing, blank or foreign
\* url parameter is answered 400 before any extraction attempt: it neither
\* writes the cookie file nor invokes the extractor.
C7_InvalidUrlRejectedEarly ==
    \A w \in workers :
        LET r == req[w]
        IN (r.pc \notin {"idle", "auth", "validate"} /\ r.reply.status # 401
              /\ ClaimInvalidUrl(r.urlparam)) =>
              /\ r.pc = "done"
              /\ r.reply.status = 400
              /\ r.reply.error = "Provide a valid YouTube URL via ?url="
              /\ r.stages = <<"auth", "validate">>
              /\ r.seen = None /\ r.cookiefile = None /\ r.extracted = None

\* https://example.com, sent with the right key, is answered 400
C7_Witness ==
    /\ API_KEY = "secret"
    /\ \E w \in workers :
         /\ req[w].given = Some("secret")
         /\ req[w].urlparam = Some(ExampleCom)
         /\ req[w].reply.status = 400

ClaimPlaylist(info) == info # None /\ info[1].type = Some("playlist")

ClaimEntries(info) ==
    IF info[1].entries = None THEN <<>> ELSE info[1].entries[1]

\* C8: a playlist result with entries is replaced by its first entry, from
\* which title, duration and the selected format then come; one without
\* entries is answered 404 and no format is selected; any other result is
\* used as it is.
C8_PlaylistFirstEntry ==
    \A w \in workers :
        LET r == req[w]
            first == ClaimEntries(r.extracted)[1]
        IN ("unwrap" \in Range(r.stages)) =>
              IF ~ClaimPlaylist(r.extracted) THEN r.info = r.extracted
              ELSE IF ClaimEntries(r.extracted) = <<>>
              THEN /\ r.pc = "done"
                   /\ r.reply.status = 404
                   /\ r.reply.error = "Playlist contained no entries"
                   /\ "select" \notin Range(r.stages)
              ELSE /\ r.info = first
                   /\ r.reply.status = 200 =>
                        /\ r.reply.title = first[1].title
                        /\ r.reply.duration = first[1].duration
                        /\ \E i \in 1..Len(first[1].formats[1]) :
                             first[1].formats[1][i].url = r.reply.mp4_url

\* a playlist of two videos is answered with the title and a format of the
\* first
C8_Witness ==
    \E w \in workers :
        /\ req[w].extracted = Playlist(Some(<<VideoFirst, VideoProgressive>>))
        /\ req[w].reply.status = 200
        /\ req[w].reply.title = Some("First")
        /\ req[w].reply.mp4_url = Some("e1")

\* the stages of the handler, in order
StageOrder ==
    <<"auth", "validate", "normalize", "cookies", "extract", "unwrap",
      "fields", "select", "respond">>

StagesUpTo(stage) ==
    SubSeq(StageOrder, 1, CHOOSE i \in 1..Len(StageOrder) : StageOrder[i] = stage)

\* C9: every request ends in one of the documented outcomes, reached through
\* the stages in their order and stopping at the first failure, whatever the
\* extractor raises or returns.
C9_DocumentedOutcomesOnly ==
    \A w \in workers :
        LET r == req[w]
        IN r.pc = "done" =>
            \/ r.reply.status = 401 /\ r.stages = StagesUpTo("auth")
            \/ r.reply.status = 400 /\ r.stages = StagesUpTo("validate")
            \/ /\ r.reply.status = 502 /\ r.reply.error = "yt-dlp failed"
               /\ r.reply.detail # "" /\ r.stages = StagesUpTo("extract")
            \/ r.reply.status = 404 /\ r.stages = StagesUpTo("unwrap")
            \/ /\ r.reply.status = 502
               /\ r.reply.error = "No downloadable MP4 URL was found"
               /\ r.stages = StagesUpTo("select")
            \/ /\ r.reply.status = 200 /\ r.stages = StagesUpTo("respond")
               /\ r.reply.source_url = r.url /\ r.reply.mp4_url # None

\* C10: with cookies configured and requests running at once, an extraction
\* that reads /tmp/cookies.txt finds the complete decoded cookies in it,
\* never an empty or partly written file.
C10_CookieReadsComplete ==
    \A w \in workers :
        req[w].seen # None => req[w].seen = b64decode(COOKIES_B64)

=============================================================================
